---- MODULE Spec2Model ----
(***************************************************************************)
(* A model of the Gemini File Search store scripts: manage-filestore.py,   *)
(* manage-store.py, query-store.py, list-stores.py and gemini-rag-zero.py. *)
(*                                                                         *)
(* One behaviour of the model is one invocation of one command.  `cmd` is  *)
(* the command, `pc` the position of the invocation inside it.  Every call *)
(* to the remote service is one step; what the remote answers (a value or  *)
(* an exception) is chosen nondeterministically at the call.               *)
(***************************************************************************)
EXTENDS Integers, Sequences, FiniteSets, TLC

VARIABLES
    cmd,        \* the command this invocation runs
    pc,         \* position of the invocation
    api_key,    \* TRUE when os.getenv("GEMINI_API_KEY") returns a key
    called,     \* TRUE once the invocation has issued a call to the remote service
    files,      \* ingestion: the fileRefs, TRUE = the local file exists
    idx,        \* ingestion: 1-based position of the for loop
    op,         \* ingestion: the local variable `operation`
    fetched,    \* ingestion: operations.get was called for the current file
    uploaded,   \* ingestion: the counter uploaded / imported / uploaded_count
    outcomes,   \* ingestion: what was reported per file, in report order
    remoteCalls, \* ingestion: the submit / operations.get calls issued so far
    demoStore,  \* demo: the store of the run: "none", "exists" or "deleted"
    nQuestions, \* demo: len(questions)
    qIdx,       \* demo: 1-based position of `for q in questions`
    demoResult, \* demo: how main ended
    demoCalls,  \* demo: the remote calls main issued outside the upload loop
    demoLines,  \* demo: the result lines main printed
    nStores,    \* stats: len(stores), the stores returned by the store listing
    listings,   \* stats: what the document listing of each store returned so far
    total_docs, \* stats: the accumulator total_docs
    total_size_mb, \* stats: the accumulator total_size_mb
    summary,    \* stats: the figures printed at the end
    export_data, \* export: the list export_data built so far
    exportOut,  \* export: what export_stores printed
    qResp,      \* query: what generate_content returned
    qOut,       \* query: what query_store printed
    confirm,    \* delete: what input() returned
    target,     \* delete: the store name / document id given on the command line
    remote,     \* delete: the stores and documents the remote service holds
    remote0,    \* delete: the remote state when the command started
    delOut,     \* delete: remote delete calls issued, and the message printed
    chkOp,      \* operation: what operations.get returned
    chkOut,     \* operation: remote calls issued, and the outcome lines printed
    chkRemote,  \* operation: the state of the operation at the remote service
    chkLog,     \* operation: per finished invocation, the remote state and the lines
    pgRemote,   \* paginated list: the stores the remote service holds, in its order
    page_size,  \* paginated list: the parameter page_size
    page_token, \* paginated list: the local page_token (NoToken = None)
    page_num,   \* paginated list: the local page_num
    total_stores, \* paginated list: the local total_stores
    pgFetches,  \* paginated list: the list calls of this invocation: token passed, result
    pgVisited,  \* paginated list: the numbered stores printed by this invocation
    pgReply,    \* paginated list: the last answer to "Show next page?"
    pgOut,      \* paginated list: how this invocation ended and the total it printed
    pgPass,     \* paginated list: 1 in the first invocation, 2 in the one after it
    pgFirst,    \* paginated list: what the first invocation fetched and printed
    infoStore,  \* store info: what file_search_stores.get returned
    infoOut,    \* store info: the figures and lines get_store_info printed
    batches,    \* two invocations side by side: the locals of each batch
    remoteOps,  \* two invocations side by side: the operations the service holds
    menuRemote, \* list-stores.py: the stores the remote service holds, in its order
    menuShown,  \* list-stores.py: the stores list_all_stores printed, numbered from 1
    menuStores, \* list-stores.py: the local `stores` of main()
    menuChoice, \* list-stores.py: the line input() returned
    menuOut     \* list-stores.py: the store whose documents were listed, and the path

envVars == <<api_key, called>>
ingestVars == <<files, idx, op, fetched, uploaded, outcomes, remoteCalls>>
demoVars == <<demoStore, nQuestions, qIdx, demoResult, demoCalls, demoLines>>
statsVars == <<nStores, listings, total_docs, total_size_mb, summary, export_data,
               exportOut>>
queryVars == <<qResp, qOut>>
deleteVars == <<confirm, target, remote, remote0, delOut>>
checkVars == <<chkOp, chkOut, chkRemote, chkLog>>
infoVars == <<infoStore, infoOut>>
concVars == <<batches, remoteOps>>
menuVars == <<menuRemote, menuShown, menuStores, menuChoice, menuOut>>
pgVars == <<pgRemote, page_size, page_token, page_num, total_stores, pgFetches,
            pgVisited, pgReply, pgOut, pgPass, pgFirst>>

vars == <<cmd, pc, envVars, ingestVars, demoVars, statsVars, queryVars, deleteVars,
          checkVars, pgVars, infoVars, concVars, menuVars>>

-----------------------------------------------------------------------------
(* Bounds of the model. *)

MaxFiles == 2

(* The demo uploads the three hard-coded sample files. *)
NumSampleFiles == 3

-----------------------------------------------------------------------------
(* Sequences of length 0..n over S. *)
SeqUpTo(S, n) == UNION {[1..k -> S] : k \in 0..n}

-----------------------------------------------------------------------------
(* Long-running operations.                                                *)
(* `done`, `error`, `response` are the three attributes the scripts read;  *)
(* error / response are TRUE when the attribute is present and truthy.     *)
(* `got` is FALSE only for the unassigned local variable.                  *)

NoOp == [got |-> FALSE, done |-> FALSE, error |-> FALSE, response |-> FALSE]

OpPending == [got |-> TRUE, done |-> FALSE, error |-> FALSE, response |-> FALSE]
OpFailed  == [got |-> TRUE, done |-> TRUE,  error |-> TRUE,  response |-> FALSE]
OpOk      == [got |-> TRUE, done |-> TRUE,  error |-> FALSE, response |-> TRUE]

(* The states the remote service reports for an Operation: not done, or    *)
(* done with exactly one of error and response.                            *)
OpStates == {OpPending, OpFailed, OpOk}

(* What a remote call can do: raise, or return one of `values`. *)
Raised == [got |-> FALSE, done |-> FALSE, error |-> TRUE, response |-> FALSE]
CallResults(values) == values \cup {Raised}

-----------------------------------------------------------------------------
(* Ingestion: upload_files, upload_with_metadata, import_files and the     *)
(* demo's upload loop.                                                     *)

BatchCmds == {"upload_files", "upload_with_metadata", "import_files"}
IngestCmds == BatchCmds \cup {"demo"}

(* Only the upload kinds test os.path.exists before submitting. *)
ChecksExistenceNever(c) == FALSE
ChecksExistence(c) == c # "import_files"

(* The config passed with a submission.  The three upload paths pass the   *)
(* same literal white_space_config; import_files passes no chunking config. *)
MaxTokensPerChunk == 500
MaxOverlapTokens == 50
ChunkingConfig(max, overlap) ==
    [chunking |-> TRUE, max_tokens_per_chunk |-> max, max_overlap_tokens |-> overlap]
NoChunkingConfig ==
    [chunking |-> FALSE, max_tokens_per_chunk |-> 0, max_overlap_tokens |-> 0]
UploadConfigNoOverlapMargin == ChunkingConfig(MaxTokensPerChunk, MaxTokensPerChunk)
UploadConfig == ChunkingConfig(MaxTokensPerChunk, MaxOverlapTokens)
SubmitConfig(c) == IF c = "import_files" THEN NoChunkingConfig ELSE UploadConfig

(* A remote call issued for file i: the submission with its config, or     *)
(* operations.get.                                                         *)
SubmitCall(i, config) == [file |-> i, call |-> "submit", config |-> config]
GetCall(i) == [file |-> i, call |-> "get", config |-> NoChunkingConfig]

(* `while not operation.done` *)
KeepWaitingNever(o) == FALSE
KeepWaiting(o) == ~o.done

(* import_files: `if hasattr(operation, 'error') and operation.error` *)
ImportOutcomeNoCheck(o) == "Succeeded"
ImportOutcome(o) == IF o.error THEN "FailedOp" ELSE "Succeeded"

(* The upload paths report success for every operation that left the loop. *)
UploadOutcome(o) == "Succeeded"

OutcomeOf(c, o) == IF c = "import_files" THEN ImportOutcome(o) ELSE UploadOutcome(o)

(* `uploaded += 1` / `imported += 1` sits in the success branch only. *)
NewCountAlways(n, kind) == n + 1
NewCount(n, kind) == IF kind = "Succeeded" THEN n + 1 ELSE n

(* Where an exception of the submit or fetch call leads: the three batch   *)
(* functions catch it inside the loop body, the demo has no handler.       *)
OnExceptionAbort(c) == IF c = "demo" THEN "crashed" ELSE "finished"
OnException(c) == IF c = "demo" THEN "crashed" ELSE "next"

(* What is reported for file i: the kind of outcome, the operation state  *)
(* it was read from (NoOp when it was read from none), and whether         *)
(* operations.get was called for the file.                                 *)
Outcome(i, kind, o, f) == [file |-> i, kind |-> kind, seen |-> o, fetches |-> f]

(* The except branch of the loop body (or the unhandled exception). *)
HandleException(f) ==
    /\ pc' = OnException(cmd)
    /\ IF OnException(cmd) = "crashed"
         THEN UNCHANGED <<idx, outcomes>>
         ELSE /\ outcomes' = Append(outcomes, Outcome(idx, "FailedExc", NoOp, f))
              /\ idx' = idx + 1
    /\ UNCHANGED <<uploaded>>

(* Loop head: end of the loop (the batch functions print their count and  *)
(* return), the existence check, and the submit call.                      *)
LoopEnd ==
    /\ cmd \in BatchCmds
    /\ UNCHANGED <<demoVars, statsVars, queryVars, deleteVars, checkVars, pgVars,
                   infoVars, concVars, menuVars>>
    /\ pc = "next"
    /\ idx > Len(files)
    /\ pc' = "finished"
    /\ UNCHANGED <<cmd, files, idx, op, fetched, uploaded, outcomes, remoteCalls>>
    /\ UNCHANGED envVars

SkipMissing ==
    /\ cmd \in IngestCmds
    /\ UNCHANGED <<demoVars, statsVars, queryVars, deleteVars, checkVars, pgVars,
                   infoVars, concVars, menuVars>>
    /\ pc = "next"
    /\ idx <= Len(files)
    /\ ChecksExistence(cmd) /\ ~files[idx]
    /\ outcomes' = Append(outcomes, Outcome(idx, "Skipped", NoOp, FALSE))
    /\ idx' = idx + 1
    /\ UNCHANGED <<cmd, pc, files, op, fetched, uploaded, remoteCalls>>
    /\ UNCHANGED envVars

Submit ==
    /\ cmd \in IngestCmds
    /\ UNCHANGED <<demoVars, statsVars, queryVars, deleteVars, checkVars, pgVars,
                   infoVars, concVars, menuVars>>
    /\ pc = "next"
    /\ idx <= Len(files)
    /\ ~(ChecksExistence(cmd) /\ ~files[idx])
    /\ remoteCalls' = remoteCalls \cup {SubmitCall(idx, SubmitConfig(cmd))}
    /\ \E r \in CallResults(OpStates) :
         IF r = Raised
           THEN /\ fetched' = FALSE
                /\ HandleException(FALSE)
                /\ UNCHANGED <<op>>
           ELSE /\ op' = r
                /\ fetched' = FALSE
                /\ pc' = "test"
                /\ UNCHANGED <<idx, uploaded, outcomes>>
    /\ UNCHANGED <<cmd, files>>
    /\ called' = TRUE /\ UNCHANGED api_key

(* The loop test; when the loop is left, the rest of the try body. *)
Test ==
    /\ cmd \in IngestCmds
    /\ UNCHANGED <<demoVars, statsVars, queryVars, deleteVars, checkVars, pgVars,
                   infoVars, concVars, menuVars>>
    /\ pc = "test"
    /\ IF KeepWaiting(op)
         THEN /\ pc' = "fetch"          \* time.sleep(2)
              /\ UNCHANGED <<idx, uploaded, outcomes>>
         ELSE /\ outcomes' = Append(outcomes, Outcome(idx, OutcomeOf(cmd, op), op, fetched))
              /\ uploaded' = NewCount(uploaded, OutcomeOf(cmd, op))
              /\ idx' = idx + 1
              /\ pc' = "next"
    /\ UNCHANGED <<cmd, files, op, fetched, remoteCalls>>
    /\ UNCHANGED envVars

(* `operation = client.operations.get(operation)` *)
Fetch ==
    /\ cmd \in IngestCmds
    /\ UNCHANGED <<demoVars, statsVars, queryVars, deleteVars, checkVars, pgVars,
                   infoVars, concVars, menuVars>>
    /\ pc = "fetch"
    /\ remoteCalls' = remoteCalls \cup {GetCall(idx)}
    /\ \E r \in CallResults(OpStates) :
         IF r = Raised
           THEN /\ fetched' = TRUE
                /\ HandleException(TRUE)
                /\ UNCHANGED <<op>>
           ELSE /\ op' = r
                /\ fetched' = TRUE
                /\ pc' = "test"
                /\ UNCHANGED <<idx, uploaded, outcomes>>
    /\ UNCHANGED <<cmd, files>>
    /\ called' = TRUE /\ UNCHANGED api_key

-----------------------------------------------------------------------------
(* Two ingestion batches running side by side: two invocations of          *)
(* upload_files / import_files, each a process of its own with its own     *)
(* locals, against one remote service.  The service names the operations   *)
(* it creates in creation order; the object a call returns carries the     *)
(* name and the state.                                                     *)

(* The files of the two batches together. *)
MaxBatchFiles == 2

Batches == {1, 2}
ConcKinds == {"upload_files", "import_files"}

Held(id, state) == [id |-> id, state |-> state]
NoHeld == Held(0, NoOp)

RemoteOp(owner, file, state) == [owner |-> owner, file |-> file, state |-> state]

BatchOutcome(i, kind, o, f) ==
    [file |-> i, kind |-> kind, seen |-> o.state, id |-> o.id, fetches |-> f]

NewBatch(kind, fs) ==
    [kind |-> kind, files |-> fs, idx |-> 1, pc |-> "next", op |-> NoHeld,
     fetched |-> FALSE, uploaded |-> 0, outcomes |-> <<>>]

(* `client.operations.get(operation)`: the name asked for is the name of   *)
(* the object the batch holds.                                             *)
FetchNameLatest(b) == Len(remoteOps)
FetchName(b) == batches[b].op.id

(* The except branch of the loop body of batch b. *)
BatchException(b, f) ==
    [batches[b] EXCEPT
       !.outcomes = Append(@, BatchOutcome(batches[b].idx, "FailedExc", NoHeld, f)),
       !.idx = @ + 1,
       !.fetched = f,
       !.pc = OnException(batches[b].kind)]

BatchLoopEnd ==
    /\ cmd = "two_batches"
    /\ pc = "start"
    /\ \E b \in Batches :
         /\ batches[b].pc = "next"
         /\ batches[b].idx > Len(batches[b].files)
         /\ batches' = [batches EXCEPT ![b].pc = "finished"]
    /\ UNCHANGED <<cmd, pc, remoteOps>>
    /\ UNCHANGED <<ingestVars, demoVars, statsVars, queryVars, deleteVars, checkVars,
                   pgVars, infoVars, menuVars>>
    /\ UNCHANGED envVars

BatchSkipMissing ==
    /\ cmd = "two_batches"
    /\ pc = "start"
    /\ \E b \in Batches :
         /\ batches[b].pc = "next"
         /\ batches[b].idx <= Len(batches[b].files)
         /\ ChecksExistence(batches[b].kind) /\ ~batches[b].files[batches[b].idx]
         /\ batches' = [batches EXCEPT
                          ![b].outcomes =
                            Append(@, BatchOutcome(batches[b].idx, "Skipped", NoHeld, FALSE)),
                          ![b].idx = @ + 1]
    /\ UNCHANGED <<cmd, pc, remoteOps>>
    /\ UNCHANGED <<ingestVars, demoVars, statsVars, queryVars, deleteVars, checkVars,
                   pgVars, infoVars, menuVars>>
    /\ UNCHANGED envVars

BatchSubmit ==
    /\ cmd = "two_batches"
    /\ pc = "start"
    /\ \E b \in Batches :
         /\ batches[b].pc = "next"
         /\ batches[b].idx <= Len(batches[b].files)
         /\ ~(ChecksExistence(batches[b].kind) /\ ~batches[b].files[batches[b].idx])
         /\ \E r \in CallResults(OpStates) :
              IF r = Raised
                THEN /\ batches' = [batches EXCEPT ![b] = BatchException(b, FALSE)]
                     /\ UNCHANGED remoteOps
                ELSE /\ remoteOps' = Append(remoteOps, RemoteOp(b, batches[b].idx, r))
                     /\ batches' = [batches EXCEPT
                                      ![b].op = Held(Len(remoteOps) + 1, r),
                                      ![b].fetched = FALSE,
                                      ![b].pc = "test"]
    /\ UNCHANGED <<cmd, pc>>
    /\ UNCHANGED <<ingestVars, demoVars, statsVars, queryVars, deleteVars, checkVars,
                   pgVars, infoVars, menuVars>>
    /\ called' = TRUE /\ UNCHANGED api_key

BatchTest ==
    /\ cmd = "two_batches"
    /\ pc = "start"
    /\ \E b \in Batches :
         /\ batches[b].pc = "test"
         /\ batches' =
              IF KeepWaiting(batches[b].op.state)
                THEN [batches EXCEPT ![b].pc = "fetch"]
                ELSE [batches EXCEPT
                        ![b].outcomes =
                          Append(@, BatchOutcome(batches[b].idx,
                                                 OutcomeOf(batches[b].kind, batches[b].op.state),
                                                 batches[b].op, batches[b].fetched)),
                        ![b].uploaded =
                          NewCount(@, OutcomeOf(batches[b].kind, batches[b].op.state)),
                        ![b].idx = @ + 1,
                        ![b].pc = "next"]
    /\ UNCHANGED <<cmd, pc, remoteOps>>
    /\ UNCHANGED <<ingestVars, demoVars, statsVars, queryVars, deleteVars, checkVars,
                   pgVars, infoVars, menuVars>>
    /\ UNCHANGED envVars

BatchFetch ==
    /\ cmd = "two_batches"
    /\ pc = "start"
    /\ \E b \in Batches :
         /\ batches[b].pc = "fetch"
         /\ \E r \in CallResults({remoteOps[FetchName(b)].state}) :
              batches' =
                IF r = Raised
                  THEN [batches EXCEPT ![b] = BatchException(b, TRUE)]
                  ELSE [batches EXCEPT
                          ![b].op = Held(FetchName(b), r),
                          ![b].fetched = TRUE,
                          ![b].pc = "test"]
    /\ UNCHANGED <<cmd, pc, remoteOps>>
    /\ UNCHANGED <<ingestVars, demoVars, statsVars, queryVars, deleteVars, checkVars,
                   pgVars, infoVars, menuVars>>
    /\ called' = TRUE /\ UNCHANGED api_key

(* The service finishes an operation, with an error or with a response. *)
RemoteOpsProgress ==
    /\ cmd = "two_batches"
    /\ pc = "start"
    /\ \E k \in 1..Len(remoteOps) :
         /\ ~remoteOps[k].state.done
         /\ \E r \in {OpFailed, OpOk} :
              remoteOps' = [remoteOps EXCEPT ![k].state = r]
    /\ UNCHANGED <<cmd, pc, batches>>
    /\ UNCHANGED <<ingestVars, demoVars, statsVars, queryVars, deleteVars, checkVars,
                   pgVars, infoVars, menuVars>>
    /\ UNCHANGED envVars

(* Both invocations have printed their count and returned. *)
BatchesDone ==
    /\ cmd = "two_batches"
    /\ pc = "start"
    /\ \A b \in Batches : batches[b].pc = "finished"
    /\ pc' = "finished"
    /\ UNCHANGED <<cmd, batches, remoteOps>>
    /\ UNCHANGED <<ingestVars, demoVars, statsVars, queryVars, deleteVars, checkVars,
                   pgVars, infoVars, menuVars>>
    /\ UNCHANGED envVars

-----------------------------------------------------------------------------
(* list-stores.py: main() prints the numbered stores, lists the stores     *)
(* again and asks for a number.                                            *)

MaxMenuStores == 3
MaxChoiceLen == 2

MenuStoreIds == 1..MaxMenuStores

(* The lists the remote service can return: every store once. *)
MenuRemotes ==
    {r \in SeqUpTo(MenuStoreIds, MaxMenuStores) :
       \A i, j \in 1..Len(r) : r[i] = r[j] => i = j}

MenuChars == {"0", "1", "2", "3", "x", " "}
MenuLines == SeqUpTo(MenuChars, MaxChoiceLen)
NoMenuLine == <<"x", "x", "x">>

(* str.strip() *)
RECURSIVE StripLeft(_)
StripLeft(t) == IF t # <<>> /\ Head(t) = " " THEN StripLeft(Tail(t)) ELSE t
RECURSIVE StripRight(_)
StripRight(t) ==
    IF t # <<>> /\ t[Len(t)] = " " THEN StripRight(SubSeq(t, 1, Len(t) - 1)) ELSE t
Strip(t) == StripRight(StripLeft(t))

(* str.isdigit() and int() *)
DigitValue(ch) ==
    IF ch = "0" THEN 0 ELSE IF ch = "1" THEN 1 ELSE IF ch = "2" THEN 2 ELSE 3
IsDigit(t) == t # <<>> /\ \A i \in 1..Len(t) : t[i] \in {"0", "1", "2", "3"}
RECURSIVE IntOf(_)
IntOf(t) ==
    IF t = <<>> THEN 0
    ELSE 10 * IntOf(SubSeq(t, 1, Len(t) - 1)) + DigitValue(t[Len(t)])

MenuOut(listed, path) == [listed |-> listed, path |-> path]
NoMenuOut == MenuOut(0, "none")

(* list_all_stores(): the first listing, printed with numbers from 1. *)
MenuListAll ==
    /\ cmd = "list_stores_main"
    /\ pc = "start"
    /\ \E raises \in BOOLEAN :
         IF raises
           THEN pc' = "crashed" /\ UNCHANGED menuShown
           ELSE pc' = "select" /\ menuShown' = menuRemote
    /\ UNCHANGED <<cmd, menuRemote, menuStores, menuChoice, menuOut>>
    /\ UNCHANGED <<ingestVars, demoVars, statsVars, queryVars, deleteVars, checkVars,
                   pgVars, infoVars, concVars>>
    /\ called' = TRUE /\ UNCHANGED api_key

(* Somebody else creates or deletes a store between the two listings. *)
MenuRemoteChange ==
    /\ cmd = "list_stores_main"
    /\ pc = "select"
    /\ \/ \E s \in MenuStoreIds :
           /\ \A i \in 1..Len(menuRemote) : menuRemote[i] # s
           /\ menuRemote' = Append(menuRemote, s)
       \/ \E k \in 1..Len(menuRemote) :
           menuRemote' = SubSeq(menuRemote, 1, k - 1)
                           \o SubSeq(menuRemote, k + 1, Len(menuRemote))
    /\ UNCHANGED <<cmd, pc, menuShown, menuStores, menuChoice, menuOut>>
    /\ UNCHANGED <<ingestVars, demoVars, statsVars, queryVars, deleteVars, checkVars,
                   pgVars, infoVars, concVars>>
    /\ UNCHANGED envVars

(* The store main() passes to list_documents_in_store for the line typed.  *)
StoreAt(stores, choice) == stores[IntOf(choice)]

(* The rest of main(): the second listing, the prompt, the document        *)
(* listing (list_documents_in_store catches its own exceptions).           *)
MenuSelect ==
    /\ cmd = "list_stores_main"
    /\ pc = "select"
    /\ \E raises \in BOOLEAN :
         IF raises
           THEN /\ pc' = "crashed"
                /\ UNCHANGED <<menuStores, menuChoice, menuOut>>
           ELSE /\ menuStores' = menuRemote
                /\ IF menuRemote = <<>>
                     THEN /\ menuOut' = MenuOut(0, "no_stores")
                          /\ pc' = "finished"
                          /\ UNCHANGED menuChoice
                   ELSE IF Len(menuRemote) = 1
                     THEN /\ menuOut' = MenuOut(menuRemote[1], "only")
                          /\ pc' = "finished"
                          /\ UNCHANGED menuChoice
                   ELSE \E eof \in BOOLEAN, line \in MenuLines :
                          IF eof
                            THEN /\ pc' = "crashed"
                                 /\ UNCHANGED <<menuChoice, menuOut>>
                            ELSE /\ menuChoice' = Strip(line)
                                 /\ pc' = "finished"
                                 /\ menuOut' =
                                      IF ~IsDigit(Strip(line))
                                        THEN MenuOut(0, "skipped")
                                      ELSE IF /\ 0 <= IntOf(Strip(line)) - 1
                                              /\ IntOf(Strip(line)) - 1 < Len(menuRemote)
                                        THEN MenuOut(StoreAt(menuRemote, Strip(line)), "chosen")
                                      ELSE MenuOut(0, "invalid")
    /\ UNCHANGED <<cmd, menuRemote, menuShown>>
    /\ UNCHANGED <<ingestVars, demoVars, statsVars, queryVars, deleteVars, checkVars,
                   pgVars, infoVars, concVars>>
    /\ called' = TRUE /\ UNCHANGED api_key

-----------------------------------------------------------------------------
(* Statistics: show_stats.                                                 *)

MaxStores == 2
MaxDocs == 2

(* 1024 * 1024, and the factor applied for the embeddings. *)
MB == 1048576
StorageFactor == 3
(* `total_size_mb * 3`, `total_size * 3`, `size_mb * 3` *)
EstimatedSameAsInput(sz) == sz
Estimated(sz) == sz * StorageFactor
FreeTierMB == 1024

(* A document's size_bytes: the attribute is missing, is None, or is a     *)
(* number of bytes.                                                        *)
SizeAbsent == [attr |-> "absent", val |-> 0]
SizeNull == [attr |-> "null", val |-> 0]
SizeOf(n) == [attr |-> "int", val |-> n]
DocSizes == {SizeAbsent, SizeNull, SizeOf(0), SizeOf(10 * MB), SizeOf(20 * MB)}

(* What documents.list can do for one store: raise, or return documents    *)
(* (each document is represented by its size_bytes).                       *)
ListingFailed == [ok |-> FALSE, docs |-> <<>>]
Listing(docs) == [ok |-> TRUE, docs |-> docs]
(* The sums below do not depend on the order of the documents, so the     *)
(* lists are taken in one fixed order of the sizes.                        *)
SizeRank(d) == IF d.attr = "absent" THEN 0 ELSE IF d.attr = "null" THEN 1 ELSE 2 + d.val
DocLists ==
    {ds \in SeqUpTo(DocSizes, MaxDocs) :
       \A i \in 1..(Len(ds) - 1) : SizeRank(ds[i]) <= SizeRank(ds[i + 1])}
ListingResults == {ListingFailed} \cup {Listing(d) : d \in DocLists}

(* getattr(doc, 'size_bytes', 0): the default is used only when the        *)
(* attribute is missing; None is returned as it is and sum() raises a      *)
(* TypeError on it.                                                        *)
SumRaises(docs) == \E i \in 1..Len(docs) : docs[i].attr = "null"

RECURSIVE SumBytes(_)
SumBytes(docs) ==
    IF docs = <<>> THEN 0
    ELSE (IF Head(docs).attr = "int" THEN Head(docs).val ELSE 0) + SumBytes(Tail(docs))

(* sum(...) / (1024 * 1024); every size of the model is a whole number of MB. *)
SizeMB(docs) == SumBytes(docs) \div MB

(* The body of the try block ran to its end for this listing result. *)
StoreCounted(l) == l.ok /\ ~SumRaises(l.docs)

NoSummary == [printed |-> FALSE, stores |-> 0, docs |-> 0, size_mb |-> 0,
              estimated_mb |-> 0, lines |-> {}]

(* The lines printed after the loop of the global statistics. *)
GlobalSummary(n, d, sz) ==
    [printed |-> TRUE, stores |-> n, docs |-> d, size_mb |-> sz,
     estimated_mb |-> Estimated(sz),
     lines |-> {"Total Stores", "Total Documents", "Total Input Size",
                "Estimated Storage Used", "Free Tier Limit"}
               \cup (IF Estimated(sz) < FreeTierMB
                       THEN {"Remaining"} ELSE {"Exceeds free tier"})]

(* `stores = list(client.file_search_stores.list())`: outside any try. *)
StatsListStores ==
    /\ cmd = "show_stats"
    /\ pc = "start"
    /\ \E raises \in BOOLEAN :
         IF raises
           THEN /\ pc' = "crashed"
                /\ UNCHANGED nStores
           ELSE \E n \in 0..MaxStores :
                  /\ nStores' = n
                  /\ pc' = IF n = 0 THEN "finished" ELSE "stats_loop"
    /\ UNCHANGED <<cmd, listings, total_docs, total_size_mb, summary, export_data,
                   exportOut>>
    /\ UNCHANGED <<ingestVars, demoVars, queryVars, deleteVars, checkVars, pgVars,
                   infoVars, concVars, menuVars>>
    /\ called' = TRUE /\ UNCHANGED api_key

(* `total_docs += len(docs)` and `total_size_mb += store_size`, the last  *)
(* two statements of the try block: skipped when an earlier one raised.    *)
AddDocsOrReset(total, l) == IF StoreCounted(l) THEN total + Len(l.docs) ELSE 0
AddDocs(total, l) == IF StoreCounted(l) THEN total + Len(l.docs) ELSE total
AddSize(total, l) == IF StoreCounted(l) THEN total + SizeMB(l.docs) ELSE total

(* One iteration of `for store in stores`: the try block and `except: pass`; *)
(* after the last store, the printed summary.                               *)
StatsStore ==
    /\ cmd = "show_stats"
    /\ pc = "stats_loop"
    /\ Len(listings) < nStores
    /\ \E l \in ListingResults :
         LET d == AddDocs(total_docs, l)
             sz == AddSize(total_size_mb, l)
         IN /\ listings' = Append(listings, l)
            /\ total_docs' = d
            /\ total_size_mb' = sz
            /\ IF Len(listings) + 1 = nStores
                 THEN /\ summary' = GlobalSummary(nStores, d, sz)
                      /\ pc' = "finished"
                 ELSE UNCHANGED <<summary, pc>>
    /\ UNCHANGED <<cmd, nStores, export_data, exportOut>>
    /\ UNCHANGED <<ingestVars, demoVars, queryVars, deleteVars, checkVars, pgVars,
                   infoVars, concVars, menuVars>>
    /\ called' = TRUE /\ UNCHANGED api_key

-----------------------------------------------------------------------------
(* Query: query_store (manage-filestore.py and query-store.py hold the     *)
(* same function).                                                         *)

MaxChunks == 2

DocNames == {"doc_a", "doc_b"}

(* A grounding chunk.  fs is the attribute file_search: "missing" (no such *)
(* attribute), "null" (None), "nodoc" (present, its document is None) or   *)
(* "doc" (present with a document).  pages is file_search.page_range:      *)
(* "missing", "null" or "range".                                           *)
Chunk(fs, doc, pages) == [fs |-> fs, doc |-> doc, pages |-> pages]
Chunks ==
    {Chunk(fs, "", "missing") : fs \in {"missing", "null", "nodoc"}}
    \cup {Chunk("doc", d, p) : d \in DocNames, p \in {"missing", "null", "range"}}

(* What generate_content can do: raise, or return a response that has no   *)
(* candidate, a candidate without grounding metadata, grounding metadata   *)
(* whose grounding_chunks is None, or grounding metadata with chunks.      *)
Response(kind, chunks) == [kind |-> kind, chunks |-> chunks]
Responses ==
    {Response(k, <<>>) : k \in {"raised", "no_candidates", "no_gm", "gm_null_chunks"}}
    \cup {Response("gm", cs) : cs \in SeqUpTo(Chunks, MaxChunks)}

NoResponse == Response("none", <<>>)

Cite(doc, pages) == [doc |-> doc, pages |-> pages]

(* `if hasattr(chunk, 'file_search')`: true for every chunk that has the   *)
(* attribute, whatever its value.                                          *)
HasFileSearch(c) == c.fs # "missing"

(* The for loop over grounding_chunks: the citation lines printed, and     *)
(* whether an attribute access raised (which ends the loop).               *)
RECURSIVE ProcessChunks(_)
ProcessChunks(cs) ==
    IF cs = <<>> THEN [cites |-> <<>>, raised |-> FALSE]
    ELSE LET c == Head(cs) IN
      IF ~HasFileSearch(c) THEN ProcessChunks(Tail(cs))
      ELSE IF c.fs # "doc"
        THEN [cites |-> <<>>, raised |-> TRUE]      \* None.document / None.display_name
      ELSE IF c.pages = "null"
        THEN [cites |-> <<Cite(c.doc, FALSE)>>, raised |-> TRUE]   \* None.start_page_index
      ELSE LET rest == ProcessChunks(Tail(cs)) IN
        [cites |-> <<Cite(c.doc, c.pages = "range")>> \o rest.cites,
         raised |-> rest.raised]

(* `if response.candidates[0].grounding_metadata` *)
HasGroundingAlways(r) == TRUE
HasGrounding(r) == r.kind \in {"gm_null_chunks", "gm"}

QueryOut(calls, answer, header, cites, outcome) ==
    [calls |-> calls, answer |-> answer, header |-> header, cites |-> cites,
     outcome |-> outcome]

NoQueryOut == QueryOut(0, FALSE, "none", <<>>, "none")

(* The body of query_store after the call returned `r`. *)
ProcessResponse(r) ==
    IF r.kind = "raised" THEN QueryOut(1, FALSE, "none", <<>>, "error")
    ELSE IF r.kind = "no_candidates" THEN QueryOut(1, TRUE, "none", <<>>, "error")
    ELSE IF ~HasGrounding(r) THEN QueryOut(1, TRUE, "NoSources", <<>>, "ok")
    ELSE IF r.kind # "gm" THEN QueryOut(1, TRUE, "Sources", <<>>, "error")
    ELSE LET res == ProcessChunks(r.chunks) IN
      QueryOut(1, TRUE, "Sources", res.cites, IF res.raised THEN "error" ELSE "ok")

(* The except branch prints the error and the function returns: nothing   *)
(* calls generate_content a second time.                                   *)
CallAgainOnError(r) == r.kind = "raised"
CallAgain(r) == FALSE

(* One generate_content call and what follows it; qOut.calls counts the    *)
(* calls of the invocation.                                                *)
QueryStore ==
    /\ cmd = "query_store"
    /\ pc = "start"
    /\ \E r \in Responses :
         /\ qResp' = r
         /\ qOut' = [ProcessResponse(r) EXCEPT !.calls = qOut.calls + 1]
         /\ pc' = IF CallAgain(r) THEN "start" ELSE "finished"
    /\ UNCHANGED <<cmd, ingestVars, demoVars, statsVars, deleteVars, checkVars, pgVars,
                   infoVars, concVars, menuVars>>
    /\ called' = TRUE /\ UNCHANGED api_key

-----------------------------------------------------------------------------
(* The demo, gemini-rag-zero.py: main() around its upload loop.            *)

(* The default list of questions holds three; --query gives one. *)
NumDefaultQuestions == 3

(* `client.file_search_stores.create(...)`: an exception ends the run      *)
(* (exit(1) or re-raised).                                                 *)
DemoCreate ==
    /\ cmd = "demo"
    /\ pc = "create"
    /\ \E created \in BOOLEAN :
         IF created
           THEN /\ demoStore' = "exists"
                /\ pc' = "next"
                /\ UNCHANGED demoResult
           ELSE /\ pc' = "crashed"
                /\ demoResult' = "create_failed"
                /\ UNCHANGED demoStore
    /\ demoCalls' = demoCalls \cup {"create"}
    /\ UNCHANGED <<cmd, ingestVars, nQuestions, qIdx, demoLines>>
    /\ UNCHANGED <<statsVars, queryVars, deleteVars, checkVars, pgVars, infoVars,
                   concVars, menuVars>>
    /\ called' = TRUE /\ UNCHANGED api_key

(* After the upload loop: `if uploaded_count == 0` deletes the store and   *)
(* returns; otherwise the questions follow.                                *)
NothingUploadedNever(n) == FALSE
NothingUploaded(n) == n = 0

DemoLoopEnd ==
    /\ cmd = "demo"
    /\ pc = "next"
    /\ idx > Len(files)
    /\ IF NothingUploaded(uploaded)
         THEN /\ demoLines' = demoLines \cup {"No files were uploaded"}
              /\ demoCalls' = demoCalls \cup {"delete"}
              /\ \E raises \in BOOLEAN :
                   IF raises
                     THEN /\ pc' = "crashed"
                          /\ UNCHANGED <<demoStore, demoResult>>
                     ELSE /\ demoStore' = "deleted"
                          /\ demoResult' = "nothing_uploaded"
                          /\ pc' = "finished"
         ELSE /\ pc' = "ask"
              /\ demoLines' = demoLines \cup {"Uploaded"}
              /\ UNCHANGED <<demoStore, demoResult, demoCalls>>
    /\ qIdx' = IF NothingUploaded(uploaded) THEN qIdx ELSE 1
    /\ UNCHANGED <<cmd, ingestVars, nQuestions>>
    /\ UNCHANGED <<statsVars, queryVars, deleteVars, checkVars, pgVars, infoVars,
                   concVars, menuVars>>
    /\ called' = (called \/ NothingUploaded(uploaded)) /\ UNCHANGED api_key

(* The demo prints `chunk.file_search.document.display_name` for every     *)
(* chunk that has the attribute; nothing in main() catches an exception.   *)
DemoAnswerRaises(r) ==
    \/ r.kind \in {"raised", "no_candidates", "gm_null_chunks"}
    \/ /\ r.kind = "gm"
       /\ \E i \in 1..Len(r.chunks) : HasFileSearch(r.chunks[i]) /\ r.chunks[i].fs # "doc"

(* One iteration of `for q in questions`. *)
DemoAsk ==
    /\ cmd = "demo"
    /\ pc = "ask"
    /\ \E r \in Responses :
         IF DemoAnswerRaises(r)
           THEN pc' = "crashed" /\ UNCHANGED qIdx
           ELSE IF qIdx < nQuestions
             THEN qIdx' = qIdx + 1 /\ UNCHANGED pc
             ELSE pc' = "cleanup" /\ UNCHANGED qIdx
    /\ demoCalls' = demoCalls \cup {"generate"}
    /\ UNCHANGED <<cmd, ingestVars, demoStore, nQuestions, demoResult, demoLines>>
    /\ UNCHANGED <<statsVars, queryVars, deleteVars, checkVars, pgVars, infoVars,
                   concVars, menuVars>>
    /\ called' = TRUE /\ UNCHANGED api_key

(* The final `client.file_search_stores.delete(..., force)`. *)
DemoCleanup ==
    /\ cmd = "demo"
    /\ pc = "cleanup"
    /\ \E raises \in BOOLEAN :
         IF raises
           THEN /\ pc' = "crashed"
                /\ UNCHANGED <<demoStore, demoResult, demoLines>>
           ELSE /\ demoStore' = "deleted"
                /\ demoResult' = "done"
                /\ demoLines' = demoLines \cup {"All done"}
                /\ pc' = "finished"
    /\ demoCalls' = demoCalls \cup {"delete"}
    /\ UNCHANGED <<cmd, ingestVars, nQuestions, qIdx>>
    /\ UNCHANGED <<statsVars, queryVars, deleteVars, checkVars, pgVars, infoVars,
                   concVars, menuVars>>
    /\ called' = TRUE /\ UNCHANGED api_key

-----------------------------------------------------------------------------
(* Deletion: delete_store and remove_document (manage-filestore.py and     *)
(* manage-store.py hold the same two functions).                           *)

MaxInputLen == 3

(* A line typed at the prompt is a sequence of characters. *)
Chars == {"y", "Y", "e", "E", "s", "S", "n", " "}

(* What input() can do: raise EOFError, or return the line typed. *)
InputEOF == [eof |-> TRUE, text |-> <<>>]
Typed(t) == [eof |-> FALSE, text |-> t]
Inputs ==
    {InputEOF} \cup {Typed(t) : t \in SeqUpTo(Chars, MaxInputLen)}
    \cup {Typed(<<"y", "e", "s", " ">>), Typed(<<" ", "Y", "E", "S">>)}

(* str.lower() *)
LowerChar(ch) ==
    CASE ch = "Y" -> "y"
      [] ch = "E" -> "e"
      [] ch = "S" -> "s"
      [] OTHER -> ch
Lower(t) == [i \in 1..Len(t) |-> LowerChar(t[i])]

(* `confirm.lower() == 'yes'` *)
ConfirmedByPrefix(t) == Len(t) > 0 /\ LowerChar(t[1]) = "y"
Confirmed(t) == Lower(t) = <<"y", "e", "s">>

StoreIds == {"s1", "s2"}
DocId(s, d) == [store |-> s, doc |-> d]
StoreTarget(s) == DocId(s, "")
DocIds == {DocId(s, "d1") : s \in StoreIds}

Remote(stores, docs) == [stores |-> stores, docs |-> docs]
RemoteStates ==
    UNION {{Remote(ss, ds) : ds \in SUBSET {d \in DocIds : d.store \in ss}} :
           ss \in SUBSET StoreIds}
NoRemote == Remote({}, {})

(* The effect of the remote delete calls: a store is deleted with force,   *)
(* which removes its documents; a document is deleted alone.               *)
RemoteHas(r, t) == IF t.doc = "" THEN t.store \in r.stores ELSE t \in r.docs
RemoteDelete(r, t) ==
    IF t.doc = ""
      THEN Remote(r.stores \ {t.store}, {d \in r.docs : d.store # t.store})
      ELSE Remote(r.stores, r.docs \ {t})

DelOut(calls, msg) == [calls |-> calls, msg |-> msg]
NoDelOut == DelOut(0, "none")

(* delete_store / remove_document: the prompt, the test, the remote call. *)
Delete ==
    /\ cmd \in {"delete_store", "remove_document"}
    /\ pc = "start"
    /\ \E inp \in Inputs :
         /\ confirm' = inp
         /\ IF inp.eof
              THEN /\ delOut' = DelOut(0, "error")
                   /\ UNCHANGED remote
            ELSE IF Confirmed(inp.text)
              THEN \E fails \in BOOLEAN :
                     IF fails \/ ~RemoteHas(remote, target)
                       THEN /\ delOut' = DelOut(1, "error")
                            /\ UNCHANGED remote
                       ELSE /\ delOut' = DelOut(1, "deleted")
                            /\ remote' = RemoteDelete(remote, target)
              ELSE /\ delOut' = DelOut(0, "cancelled")
                   /\ UNCHANGED remote
    /\ pc' = "finished"
    /\ UNCHANGED <<cmd, target, remote0>>
    /\ UNCHANGED <<ingestVars, demoVars, statsVars, queryVars, checkVars, pgVars,
                   infoVars, concVars, menuVars>>
    /\ called' = (called \/ delOut'.calls > 0) /\ UNCHANGED api_key

-----------------------------------------------------------------------------
(* Operation status: check_operation.                                      *)

(* The outcome lines printed for the fetched operation. *)
CheckReportIgnoringDone(o) ==
    IF o.error THEN {"Error"}
    ELSE IF o.response THEN {"Success"}
    ELSE {"In progress"}
CheckReport(o) ==
    IF o.done
      THEN (IF o.error THEN {"Error"}
            ELSE IF o.response THEN {"Success"}
            ELSE {})
      ELSE {"In progress"}

ChkOut(calls, lines) == [calls |-> calls, lines |-> lines]
NoChkOut == ChkOut(0, {})

MaxChecks == 2

(* The operation was started by an earlier invocation whose poll may have  *)
(* been abandoned.  Before it is done its error and response attributes    *)
(* carry no meaning, so the remote service may report any value for them.  *)
OpUnfinished(e, r) == [got |-> TRUE, done |-> FALSE, error |-> e, response |-> r]
RemoteOpStates == OpStates \cup {OpUnfinished(e, r) : e, r \in BOOLEAN}

ChkRun(before, after, got, lines) ==
    [before |-> before, after |-> after, got |-> got, lines |-> lines]

(* check_operation: the one operations.get call and the lines printed. *)
CheckOperation ==
    /\ cmd = "check_operation"
    /\ pc = "start"
    /\ UNCHANGED chkRemote
    /\ \E r \in CallResults({chkRemote}) :
         /\ chkOp' = r
         /\ chkOut' = IF r = Raised
                        THEN ChkOut(chkOut.calls + 1, {"Error checking operation"})
                        ELSE ChkOut(chkOut.calls + 1, CheckReport(r))
         /\ chkLog' = Append(chkLog, ChkRun(chkRemote, chkRemote', r, chkOut'.lines))
    /\ pc' = "finished"
    /\ UNCHANGED <<cmd, ingestVars, demoVars, statsVars, queryVars, deleteVars, pgVars,
                   infoVars, concVars, menuVars>>
    /\ called' = TRUE /\ UNCHANGED api_key

(* The remote job goes on whether or not anyone polls it. *)
RemoteOpProgress ==
    /\ cmd = "check_operation"
    /\ pc \in {"start", "finished"}
    /\ ~chkRemote.done
    /\ chkRemote' \in {OpFailed, OpOk}
    /\ UNCHANGED <<cmd, pc, chkOp, chkOut, chkLog>>
    /\ UNCHANGED <<ingestVars, demoVars, statsVars, queryVars, deleteVars, pgVars,
                   infoVars, concVars, menuVars>>
    /\ UNCHANGED envVars

(* check_operation is run again for the same operation id. *)
CheckAgain ==
    /\ cmd = "check_operation"
    /\ pc = "finished"
    /\ Len(chkLog) < MaxChecks
    /\ chkOp' = NoOp
    /\ chkOut' = NoChkOut
    /\ pc' = "start"
    /\ UNCHANGED <<cmd, chkRemote, chkLog>>
    /\ UNCHANGED <<ingestVars, demoVars, statsVars, queryVars, deleteVars, pgVars,
                   infoVars, concVars, menuVars>>
    /\ UNCHANGED envVars

-----------------------------------------------------------------------------
(* Paginated store listing: list_stores_paginated.                         *)

MaxListed == 3
MaxPageSize == 2

Min(a, b) == IF a < b THEN a ELSE b

(* The remote service holds stores s1 .. sn in a fixed order. *)
ListedStore(i) == [name |-> i]
RemoteStores(n) == [i \in 1..n |-> ListedStore(i)]

(* A page token is opaque to the script; the remote service of the model   *)
(* uses the number of stores already returned.  NoToken is None.           *)
NoToken == 0

(* What file_search_stores.list can do: raise, return an object without    *)
(* the attributes file_search_stores and next_page_token, or return the    *)
(* page that follows `token` together with the token of the page after it  *)
(* (none when the page is the last one).                                   *)
PageRaised == [raised |-> TRUE, has_stores |-> FALSE, stores |-> <<>>, next |-> NoToken]
PageNoAttrs == [raised |-> FALSE, has_stores |-> FALSE, stores |-> <<>>, next |-> NoToken]
RemotePage(held, size, token) ==
    LET last == Min(token + size, Len(held)) IN
      [raised |-> FALSE, has_stores |-> TRUE,
       stores |-> SubSeq(held, token + 1, last),
       next |-> IF last < Len(held) THEN last ELSE NoToken]
ListResults(held, size, token) ==
    {PageRaised, PageNoAttrs, RemotePage(held, size, token)}

(* `page_token = None; page_num = 1; total_stores = 0` *)
FirstTokenKept(prev) == prev
FirstToken(prev) == NoToken

(* `if page_token:` chooses between the call with and without page_token. *)
TokenPassedAlwaysNone(token) == NoToken
TokenPassed(token) == IF token # NoToken THEN token ELSE NoToken

PgFetchRec(token, result) == [token |-> token, result |-> result]

(* `enumerate(stores, 1 + total_stores)` *)
Numbered(stores, total) ==
    [i \in 1..Len(stores) |-> [num |-> total + i, store |-> stores[i]]]

(* How an invocation ended, and the total printed (NoTotal: none printed). *)
NoTotal == -1
PgOut(ending, total) == [ending |-> ending, total |-> total]
NoPgOut == PgOut("running", NoTotal)

(* One pass of the `while True` body up to the prompt: the list call, the  *)
(* printed page, the counter and the test of next_page_token.              *)
PgFetch ==
    /\ cmd = "list_stores_paginated"
    /\ pc = "pg_fetch"
    /\ \E res \in ListResults(pgRemote, page_size, TokenPassed(page_token)) :
         LET stores == IF res.has_stores THEN res.stores ELSE <<>> IN
         /\ pgFetches' = Append(pgFetches, PgFetchRec(TokenPassed(page_token), res))
         /\ IF res.raised
              THEN /\ pgOut' = PgOut("error", total_stores)
                   /\ pc' = "finished"
                   /\ UNCHANGED <<page_token, page_num, total_stores, pgVisited>>
            ELSE IF stores = <<>> /\ page_num = 1
              THEN /\ pgOut' = PgOut("no_stores", NoTotal)
                   /\ pc' = "finished"
                   /\ UNCHANGED <<page_token, page_num, total_stores, pgVisited>>
            ELSE /\ pgVisited' = pgVisited \o Numbered(stores, total_stores)
                 /\ total_stores' = total_stores + Len(stores)
                 /\ IF res.next # NoToken
                      THEN /\ page_token' = res.next
                           /\ page_num' = page_num + 1
                           /\ pc' = "pg_prompt"
                           /\ UNCHANGED pgOut
                      ELSE /\ pgOut' = PgOut("no_token", total_stores + Len(stores))
                           /\ pc' = "finished"
                           /\ UNCHANGED <<page_token, page_num>>
    /\ UNCHANGED <<cmd, pgRemote, page_size, pgReply, pgPass, pgFirst>>
    /\ UNCHANGED <<ingestVars, demoVars, statsVars, queryVars, deleteVars, checkVars,
                   infoVars, concVars, menuVars>>
    /\ called' = TRUE /\ UNCHANGED api_key

(* `response = input(...)`: EOFError, or the line typed. *)
PgReplies == {"eof", "y", "Y", "n", "yes", ""}
PgLower(r) == IF r = "Y" THEN "y" ELSE r

(* `if response.lower() != 'y': break` *)
NextPageWanted(r) == r # "eof" /\ PgLower(r) = "y"

PgPrompt ==
    /\ cmd = "list_stores_paginated"
    /\ pc = "pg_prompt"
    /\ \E r \in PgReplies :
         /\ pgReply' = r
         /\ IF NextPageWanted(r)
              THEN pc' = "pg_fetch" /\ UNCHANGED pgOut
              ELSE /\ pc' = "finished"
                   /\ pgOut' = PgOut(IF r = "eof" THEN "error" ELSE "declined",
                                     total_stores)
    /\ UNCHANGED <<cmd, pgRemote, page_size, page_token, page_num, total_stores,
                   pgFetches, pgVisited, pgPass, pgFirst>>
    /\ UNCHANGED <<ingestVars, demoVars, statsVars, queryVars, deleteVars, checkVars,
                   infoVars, concVars, menuVars>>
    /\ UNCHANGED envVars

(* The function is invoked a second time, nothing having changed remotely: *)
(* its locals start again from their initial values.                       *)
PgFirstPass(fetches, visited, out) == [fetches |-> fetches, visited |-> visited, out |-> out]
NoFirstPass == PgFirstPass(<<>>, <<>>, NoPgOut)

PgInvokeAgain ==
    /\ cmd = "list_stores_paginated"
    /\ pc = "finished"
    /\ pgPass = 1
    /\ pgPass' = 2
    /\ pgFirst' = PgFirstPass(pgFetches, pgVisited, pgOut)
    /\ page_token' = FirstToken(page_token)
    /\ page_num' = 1
    /\ total_stores' = 0
    /\ pgFetches' = <<>>
    /\ pgVisited' = <<>>
    /\ pgReply' = ""
    /\ pgOut' = NoPgOut
    /\ pc' = "pg_fetch"
    /\ UNCHANGED <<cmd, pgRemote, page_size>>
    /\ UNCHANGED <<ingestVars, demoVars, statsVars, queryVars, deleteVars, checkVars,
                   infoVars, concVars, menuVars>>
    /\ UNCHANGED envVars

-----------------------------------------------------------------------------
(* Statistics of one store: show_stats(store_name).                        *)

StoreSummary(d, sz) ==
    [printed |-> TRUE, stores |-> 0, docs |-> d, size_mb |-> sz,
     estimated_mb |-> Estimated(sz),
     lines |-> {"Documents", "Total Size", "Estimated Storage"}]
StoreSummaryError ==
    [printed |-> FALSE, stores |-> 0, docs |-> 0, size_mb |-> 0,
     estimated_mb |-> 0, lines |-> {"Error"}]

(* The try block of the single-store branch and its except. *)
StatsOneStore ==
    /\ cmd = "show_stats_store"
    /\ pc = "start"
    /\ \E l \in ListingResults :
         /\ listings' = <<l>>
         /\ summary' = IF StoreCounted(l) THEN StoreSummary(Len(l.docs), SizeMB(l.docs))
                       ELSE StoreSummaryError
    /\ pc' = "finished"
    /\ UNCHANGED <<cmd, nStores, total_docs, total_size_mb, export_data, exportOut>>
    /\ UNCHANGED <<ingestVars, demoVars, queryVars, deleteVars, checkVars, pgVars,
                   infoVars, concVars, menuVars>>
    /\ called' = TRUE /\ UNCHANGED api_key

-----------------------------------------------------------------------------
(* Store information: get_store_info.                                      *)

(* An attribute of the store that is None, or holds the number n. *)
Null == [null |-> TRUE, val |-> 0]
Num(n) == [null |-> FALSE, val |-> n]

(* `int(x) if x is not None else 0` *)
CountOf(x) == IF x.null THEN 0 ELSE x.val

(* `int(store.size_bytes) / (1024 * 1024) if store.size_bytes is not None  *)
(* and store.size_bytes else 0`                                            *)
RawSizeMB(x) == IF ~x.null /\ x.val # 0 THEN x.val \div MB ELSE 0

StoreInfo(active, pending, failed, size) ==
    [raised |-> FALSE, active |-> active, pending |-> pending, failed |-> failed,
     size_bytes |-> size]
StoreInfoRaised == [raised |-> TRUE, active |-> Null, pending |-> Null,
                    failed |-> Null, size_bytes |-> Null]
NoStoreInfo == StoreInfoRaised
StoreInfos ==
    {StoreInfoRaised}
    \cup {StoreInfo(a, p, f, sz) :
            a \in {Null, Num(0), Num(2)}, p \in {Null, Num(1)},
            f \in {Null, Num(0), Num(1)},
            sz \in {Null, Num(0), Num(10 * MB), Num(20 * MB)}}

InfoOut(printed, failed, raw, estimated, lines) ==
    [printed |-> printed, failed_count |-> failed, size_mb |-> raw,
     estimated_mb |-> estimated, lines |-> lines]
NoInfoOut == InfoOut(FALSE, 0, 0, 0, {})

(* What get_store_info prints for the store returned. *)
InfoReport(st) ==
    IF st.raised THEN InfoOut(FALSE, 0, 0, 0, {"Error getting store info"})
    ELSE InfoOut(TRUE, CountOf(st.failed), RawSizeMB(st.size_bytes),
                 Estimated(RawSizeMB(st.size_bytes)),
                 {"Raw Size", "Estimated with Embeddings"}
                 \cup (IF CountOf(st.failed) > 0 THEN {"Warning"} ELSE {}))

GetStoreInfo ==
    /\ cmd = "get_store_info"
    /\ pc = "start"
    /\ \E st \in StoreInfos :
         /\ infoStore' = st
         /\ infoOut' = InfoReport(st)
    /\ pc' = "finished"
    /\ UNCHANGED <<cmd, ingestVars, demoVars, statsVars, queryVars, deleteVars,
                   checkVars, pgVars, concVars, menuVars>>
    /\ called' = TRUE /\ UNCHANGED api_key

-----------------------------------------------------------------------------
(* Export of all stores: export_stores().                                  *)

(* The dictionary appended for a store: its keys, and the two values the   *)
(* model follows.                                                          *)
ExportEntry(store, count) ==
    [keys |-> {"display_name", "name", "create_time", "document_count"},
     name |-> store, document_count |-> count]

NoExport == [printed |-> FALSE, data |-> <<>>]
Exported(data) == [printed |-> TRUE, data |-> data]

(* `stores = list(client.file_search_stores.list())`, outside any try;     *)
(* with no store the loop is empty and the empty list is printed.          *)
ExportListStores ==
    /\ cmd = "export_stores"
    /\ pc = "start"
    /\ \E raises \in BOOLEAN :
         IF raises
           THEN /\ pc' = "crashed"
                /\ UNCHANGED <<nStores, exportOut>>
           ELSE \E n \in 0..MaxStores :
                  /\ nStores' = n
                  /\ pc' = IF n = 0 THEN "finished" ELSE "export_loop"
                  /\ exportOut' = IF n = 0 THEN Exported(<<>>) ELSE exportOut
    /\ UNCHANGED <<cmd, listings, total_docs, total_size_mb, summary, export_data>>
    /\ UNCHANGED <<ingestVars, demoVars, queryVars, deleteVars, checkVars, pgVars,
                   infoVars, concVars, menuVars>>
    /\ called' = TRUE /\ UNCHANGED api_key

(* The try block of one store: the entry is appended after the listing    *)
(* returned; `except: pass` appends nothing.                               *)
ExportAppend(data, store, l) ==
    IF l.ok THEN Append(data, ExportEntry(store, Len(l.docs))) ELSE data

(* One iteration of `for store in stores`; after the last store, the       *)
(* printed json.                                                           *)
ExportStore ==
    /\ cmd = "export_stores"
    /\ pc = "export_loop"
    /\ Len(listings) < nStores
    /\ \E l \in ListingResults :
         LET data == ExportAppend(export_data, Len(listings) + 1, l) IN
         /\ listings' = Append(listings, l)
         /\ export_data' = data
         /\ IF Len(listings) + 1 = nStores
              THEN /\ exportOut' = Exported(data)
                   /\ pc' = "finished"
              ELSE UNCHANGED <<exportOut, pc>>
    /\ UNCHANGED <<cmd, nStores, total_docs, total_size_mb, summary>>
    /\ UNCHANGED <<ingestVars, demoVars, queryVars, deleteVars, checkVars, pgVars,
                   infoVars, concVars, menuVars>>
    /\ called' = TRUE /\ UNCHANGED api_key

-----------------------------------------------------------------------------
(* Start of a script: load_dotenv(), the key, the client.                  *)

(* Only gemini-rag-zero.py tests the key (`if not api_key: ... exit(1)`);  *)
(* the other scripts pass os.getenv("GEMINI_API_KEY") to genai.Client as   *)
(* it is.                                                                  *)
ChecksApiKey(c) == c = "demo"

FirstPc(c) ==
    IF c = "demo" THEN "create"
    ELSE IF c \in BatchCmds THEN "next"
    ELSE IF c = "list_stores_paginated" THEN "pg_fetch"
    ELSE "start"

(* genai.Client(api_key=None) is the library's: it raises (the script ends *)
(* on the traceback) or builds a client from what else it finds.           *)
Startup ==
    /\ pc = "startup"
    /\ IF api_key
         THEN pc' = FirstPc(cmd)
       ELSE IF ChecksApiKey(cmd)
         THEN pc' = "exited"
       ELSE \E built \in BOOLEAN :
              pc' = IF built THEN FirstPc(cmd) ELSE "no_client"
    /\ UNCHANGED <<cmd, envVars, ingestVars, demoVars, statsVars, queryVars,
                   deleteVars, checkVars, pgVars, infoVars, concVars, menuVars>>

-----------------------------------------------------------------------------
(* The state of the variables a command does not use. *)
IngestAtRest ==
    /\ files = <<>> /\ idx = 1 /\ op = NoOp /\ fetched = FALSE
    /\ uploaded = 0 /\ outcomes = <<>> /\ remoteCalls = {}
DemoAtRest ==
    /\ demoStore = "none" /\ nQuestions = 0 /\ qIdx = 0 /\ demoResult = "none"
    /\ demoCalls = {} /\ demoLines = {}
StatsAtRest ==
    /\ nStores = 0 /\ listings = <<>> /\ total_docs = 0 /\ total_size_mb = 0
    /\ summary = NoSummary /\ export_data = <<>> /\ exportOut = NoExport
QueryAtRest == qResp = NoResponse /\ qOut = NoQueryOut
DeleteAtRest ==
    /\ confirm = InputEOF /\ target = StoreTarget("s1")
    /\ remote = NoRemote /\ remote0 = NoRemote /\ delOut = NoDelOut
ConcAtRest ==
    /\ batches = [b \in Batches |-> NewBatch("import_files", <<>>)]
    /\ remoteOps = <<>>
MenuAtRest ==
    /\ menuRemote = <<>> /\ menuShown = <<>> /\ menuStores = <<>>
    /\ menuChoice = NoMenuLine /\ menuOut = NoMenuOut
CheckAtRest == chkOp = NoOp /\ chkOut = NoChkOut /\ chkRemote = NoOp /\ chkLog = <<>>
InfoAtRest == infoStore = NoStoreInfo /\ infoOut = NoInfoOut
PgAtRest ==
    /\ pgRemote = <<>> /\ page_size = 1 /\ page_token = NoToken /\ page_num = 1
    /\ total_stores = 0 /\ pgFetches = <<>> /\ pgVisited = <<>> /\ pgReply = ""
    /\ pgOut = NoPgOut /\ pgPass = 1 /\ pgFirst = NoFirstPass

InitIngest ==
    /\ cmd \in IngestCmds
    /\ pc = "startup"
    /\ api_key \in BOOLEAN /\ called = FALSE
    /\ MenuAtRest
    /\ ConcAtRest
    /\ demoStore = "none" /\ qIdx = 0 /\ demoResult = "none"
    /\ demoCalls = {} /\ demoLines = {}
    /\ nQuestions \in (IF cmd = "demo" THEN {1, NumDefaultQuestions} ELSE {0})
    /\ files \in (IF cmd = "demo" THEN [1..NumSampleFiles -> BOOLEAN]
                  ELSE IF cmd = "import_files" THEN SeqUpTo({TRUE}, MaxFiles)
                  ELSE SeqUpTo(BOOLEAN, MaxFiles))
    /\ idx = 1
    /\ op = NoOp
    /\ fetched = FALSE
    /\ uploaded = 0
    /\ outcomes = <<>>
    /\ remoteCalls = {}
    /\ StatsAtRest /\ QueryAtRest /\ DeleteAtRest /\ CheckAtRest /\ PgAtRest /\ InfoAtRest

InitInfo ==
    /\ cmd = "get_store_info"
    /\ pc = "startup"
    /\ api_key \in BOOLEAN /\ called = FALSE
    /\ MenuAtRest
    /\ ConcAtRest
    /\ InfoAtRest
    /\ IngestAtRest /\ DemoAtRest /\ StatsAtRest /\ QueryAtRest /\ DeleteAtRest
    /\ CheckAtRest /\ PgAtRest

InitStats ==
    /\ cmd \in {"show_stats", "show_stats_store", "export_stores"}
    /\ pc = "startup"
    /\ api_key \in BOOLEAN /\ called = FALSE
    /\ MenuAtRest
    /\ ConcAtRest
    /\ StatsAtRest
    /\ IngestAtRest /\ DemoAtRest /\ QueryAtRest /\ DeleteAtRest /\ CheckAtRest /\ PgAtRest /\ InfoAtRest

InitQuery ==
    /\ cmd = "query_store"
    /\ pc = "startup"
    /\ api_key \in BOOLEAN /\ called = FALSE
    /\ MenuAtRest
    /\ ConcAtRest
    /\ QueryAtRest
    /\ IngestAtRest /\ DemoAtRest /\ StatsAtRest /\ DeleteAtRest /\ CheckAtRest /\ PgAtRest /\ InfoAtRest

InitDelete ==
    /\ cmd \in {"delete_store", "remove_document"}
    /\ pc = "startup"
    /\ api_key \in BOOLEAN /\ called = FALSE
    /\ MenuAtRest
    /\ ConcAtRest
    /\ confirm = InputEOF
    /\ target \in (IF cmd = "delete_store" THEN {StoreTarget(s) : s \in StoreIds}
                   ELSE DocIds)
    /\ remote \in RemoteStates
    /\ remote0 = remote
    /\ delOut = NoDelOut
    /\ IngestAtRest /\ DemoAtRest /\ StatsAtRest /\ QueryAtRest /\ CheckAtRest /\ PgAtRest /\ InfoAtRest

InitCheck ==
    /\ cmd = "check_operation"
    /\ pc = "startup"
    /\ api_key \in BOOLEAN /\ called = FALSE
    /\ MenuAtRest
    /\ ConcAtRest
    /\ chkOp = NoOp /\ chkOut = NoChkOut /\ chkLog = <<>>
    /\ chkRemote \in RemoteOpStates
    /\ IngestAtRest /\ DemoAtRest /\ StatsAtRest /\ QueryAtRest /\ DeleteAtRest /\ PgAtRest /\ InfoAtRest

InitPg ==
    /\ cmd = "list_stores_paginated"
    /\ pc = "startup"
    /\ api_key \in BOOLEAN /\ called = FALSE
    /\ MenuAtRest
    /\ ConcAtRest
    /\ pgRemote \in {RemoteStores(n) : n \in 0..MaxListed}
    /\ page_size \in 1..MaxPageSize
    /\ page_token = NoToken /\ page_num = 1 /\ total_stores = 0
    /\ pgFetches = <<>> /\ pgVisited = <<>> /\ pgReply = ""
    /\ pgOut = NoPgOut /\ pgPass = 1 /\ pgFirst = NoFirstPass
    /\ IngestAtRest /\ DemoAtRest /\ StatsAtRest /\ QueryAtRest /\ DeleteAtRest /\ InfoAtRest
    /\ CheckAtRest /\ InfoAtRest

BatchFiles(kind) ==
    IF ChecksExistence(kind) THEN SeqUpTo(BOOLEAN, MaxBatchFiles)
    ELSE SeqUpTo({TRUE}, MaxBatchFiles)

InitConc ==
    /\ cmd = "two_batches"
    /\ pc = "startup"
    /\ api_key \in BOOLEAN /\ called = FALSE
    /\ MenuAtRest
    /\ \E k1, k2 \in ConcKinds :
         \E f1 \in BatchFiles(k1), f2 \in BatchFiles(k2) :
           /\ Len(f1) + Len(f2) <= MaxBatchFiles
           /\ batches = [b \in Batches |->
                           IF b = 1 THEN NewBatch(k1, f1) ELSE NewBatch(k2, f2)]
    /\ remoteOps = <<>>
    /\ IngestAtRest /\ DemoAtRest /\ StatsAtRest /\ QueryAtRest /\ DeleteAtRest
    /\ CheckAtRest /\ PgAtRest /\ InfoAtRest /\ MenuAtRest

InitMenu ==
    /\ cmd = "list_stores_main"
    /\ pc = "startup"
    /\ api_key \in BOOLEAN /\ called = FALSE
    /\ menuRemote \in MenuRemotes
    /\ menuShown = <<>> /\ menuStores = <<>>
    /\ menuChoice = NoMenuLine /\ menuOut = NoMenuOut
    /\ IngestAtRest /\ DemoAtRest /\ StatsAtRest /\ QueryAtRest /\ DeleteAtRest
    /\ CheckAtRest /\ PgAtRest /\ InfoAtRest /\ ConcAtRest

Init ==
    \/ InitMenu
    \/ InitConc
    \/ InitIngest
    \/ InitStats
    \/ InitQuery
    \/ InitDelete
    \/ InitCheck
    \/ InitInfo
    \/ InitPg

Next ==
    \/ Startup
    \/ DemoCreate
    \/ DemoLoopEnd
    \/ DemoAsk
    \/ DemoCleanup
    \/ LoopEnd
    \/ SkipMissing
    \/ Submit
    \/ Test
    \/ Fetch
    \/ StatsListStores
    \/ StatsStore
    \/ QueryStore
    \/ Delete
    \/ CheckOperation
    \/ RemoteOpProgress
    \/ CheckAgain
    \/ PgFetch
    \/ PgPrompt
    \/ PgInvokeAgain
    \/ StatsOneStore
    \/ GetStoreInfo
    \/ ExportListStores
    \/ ExportStore
    \/ BatchLoopEnd
    \/ BatchSkipMissing
    \/ BatchSubmit
    \/ BatchTest
    \/ BatchFetch
    \/ RemoteOpsProgress
    \/ BatchesDone
    \/ MenuListAll
    \/ MenuRemoteChange
    \/ MenuSelect

Spec == Init /\ [][Next]_vars

(* The interpreter always runs the next statement of the invocation. *)
FairSpec == Spec /\ WF_vars(Next)

-----------------------------------------------------------------------------
(* Properties.                                                             *)

Count(kind) == Cardinality({i \in 1..Len(outcomes) : outcomes[i].kind = kind})

(* C1: in every ingestion path a success, or a failure read from the       *)
(* operation, is reported only when the latest state obtained for that     *)
(* file's operation has done = TRUE; the success counter counts only such  *)
(* files.                                                                  *)
C1_OutcomeOnlyWhenDone ==
    cmd \in IngestCmds =>
      /\ \A i \in 1..Len(outcomes) :
           outcomes[i].kind \in {"Succeeded", "FailedOp"} =>
             outcomes[i].seen.got /\ outcomes[i].seen.done
      /\ uploaded = Cardinality({i \in 1..Len(outcomes) :
                                   /\ outcomes[i].kind = "Succeeded"
                                   /\ outcomes[i].seen.done})

C1_Witness ==
    /\ cmd \in IngestCmds
    /\ \E i \in 1..Len(outcomes) :
         /\ outcomes[i].kind = "Succeeded"
         /\ outcomes[i].fetches
         /\ outcomes[i].seen.done

C3_FailureDoesNotStopBatch ==
    cmd \in BatchCmds =>
      /\ pc # "crashed"
      /\ \A i \in 1..Len(outcomes) : outcomes[i].file = i
      /\ pc = "next" => idx = Len(outcomes) + 1
      /\ pc = "finished" => Len(outcomes) = Len(files)

C3_Witness ==
    /\ cmd \in BatchCmds
    /\ pc = "finished"
    /\ Len(outcomes) >= 2
    /\ outcomes[1].kind \in {"FailedExc", "FailedOp"}
    /\ outcomes[2].kind = "Succeeded"

(* C4: when a batch finishes every fileRef has exactly one outcome among   *)
(* Succeeded, Failed and Skipped; the success counter is the number of     *)
(* Succeeded files and never exceeds the number of input files.            *)
C4_OutcomesPartitionBatch ==
    cmd \in IngestCmds =>
      /\ uploaded = Count("Succeeded")
      /\ uploaded <= Len(files)
      /\ Len(outcomes) <= Len(files)
      /\ \A i, j \in 1..Len(outcomes) : outcomes[i].file = outcomes[j].file => i = j
      /\ pc = "finished" =>
           /\ {outcomes[i].file : i \in 1..Len(outcomes)} = 1..Len(files)
           /\ Count("Succeeded") + Count("FailedOp") + Count("FailedExc")
                + Count("Skipped") = Len(files)

C4_Witness ==
    /\ cmd \in IngestCmds
    /\ pc = "finished"
    /\ Count("Succeeded") >= 1
    /\ Count("FailedOp") + Count("FailedExc") >= 1
    /\ uploaded = Count("Succeeded")

(* The try block of the store raised: the listing failed, or the sum met a *)
(* size that is None.                                                      *)
StoreFailed(l) == ~l.ok \/ \E i \in 1..Len(l.docs) : l.docs[i] = SizeNull

KnownMB(d) == IF d.attr = "int" THEN d.val \div MB ELSE 0

RECURSIVE DocsMB(_)
DocsMB(docs) == IF docs = <<>> THEN 0 ELSE KnownMB(Head(docs)) + DocsMB(Tail(docs))

RECURSIVE ExpectedDocs(_)
ExpectedDocs(ls) ==
    IF ls = <<>> THEN 0
    ELSE (IF StoreFailed(Head(ls)) THEN 0 ELSE Len(Head(ls).docs))
         + ExpectedDocs(Tail(ls))

RECURSIVE ExpectedMB(_)
ExpectedMB(ls) ==
    IF ls = <<>> THEN 0
    ELSE (IF StoreFailed(Head(ls)) THEN 0 ELSE DocsMB(Head(ls).docs))
         + ExpectedMB(Tail(ls))

AllSucceeded(ls) == [i \in 1..Len(ls) |-> IF ls[i].ok THEN ls[i] ELSE Listing(<<>>)]

(* C6: a summary produced while the document listing of some store failed  *)
(* differs from the summary produced when every listing succeeded.         *)
C6_FailureIsFlagged ==
    (cmd = "show_stats" /\ pc = "finished" /\ summary.printed
       /\ \E i \in 1..Len(listings) : ~listings[i].ok) =>
      summary # GlobalSummary(nStores, ExpectedDocs(AllSucceeded(listings)),
                              ExpectedMB(AllSucceeded(listings)))

(* C7: a response whose candidate carries no grounding metadata gives the  *)
(* answer, no citation, the "no sources" line, and no error.               *)
C7_NoGroundingIsNotAnError ==
    (cmd = "query_store" /\ pc = "finished" /\ qResp.kind = "no_gm") =>
      /\ qOut.answer
      /\ qOut.cites = <<>>
      /\ qOut.header = "NoSources"
      /\ qOut.outcome = "ok"

C7_Witness ==
    /\ cmd = "query_store"
    /\ pc = "finished"
    /\ qResp.kind = "no_gm"
    /\ qOut.calls = 1
    /\ qOut.outcome = "ok"

RECURSIVE AttributedCites(_)
AttributedCites(cs) ==
    IF cs = <<>> THEN <<>>
    ELSE (IF Head(cs).fs = "doc"
            THEN <<Cite(Head(cs).doc, Head(cs).pages = "range")>> ELSE <<>>)
         \o AttributedCites(Tail(cs))

(* C8: chunks without a document attribution (file_search missing or None, *)
(* or its document None) produce no citation, the attributed chunks are    *)
(* all cited in order, and the query does not end in the error branch.     *)
C8_UnattributedChunksDropped ==
    (/\ cmd = "query_store" /\ pc = "finished" /\ qResp.kind = "gm"
     /\ \E i \in 1..Len(qResp.chunks) : qResp.chunks[i].fs # "doc"
     /\ \A i \in 1..Len(qResp.chunks) : qResp.chunks[i].pages # "null") =>
      /\ qOut.outcome = "ok"
      /\ qOut.cites = AttributedCites(qResp.chunks)

YesVariants ==
    {<<a, b, c>> : a \in {"y", "Y"}, b \in {"e", "E"}, c \in {"s", "S"}}

(* C9: delete_store and remove_document call the remote delete exactly     *)
(* when the line typed is "yes" in any letter case; for every other line   *)
(* no remote call is made, the remote state is unchanged and the command   *)
(* reports a cancellation.                                                 *)
C9_DeleteOnlyAfterYes ==
    cmd \in {"delete_store", "remove_document"} =>
      /\ delOut.calls > 0 => (~confirm.eof /\ confirm.text \in YesVariants)
      /\ remote # remote0 => delOut.calls = 1
      /\ (pc = "finished" /\ ~confirm.eof) =>
           IF confirm.text \in YesVariants
             THEN delOut.calls = 1 /\ delOut.msg \in {"deleted", "error"}
             ELSE delOut.calls = 0 /\ remote = remote0 /\ delOut.msg = "cancelled"

C9_Witness ==
    /\ cmd = "delete_store"
    /\ pc = "finished"
    /\ confirm = Typed(<<"Y", "e", "S">>)
    /\ delOut = DelOut(1, "deleted")
    /\ target.store \in remote0.stores
    /\ target.store \notin remote.stores

(* C10: waiting on an operation is bounded, so every ingestion batch       *)
(* eventually ends, whatever the remote service answers.                   *)
C10_BatchTerminates ==
    (cmd \in IngestCmds) => <>(pc \in {"finished", "crashed", "exited", "no_client"})

UploadCmds == {"upload_files", "upload_with_metadata", "demo"}

(* C11: every upload submission issued carries a chunking configuration    *)
(* whose two values are positive and whose max_overlap_tokens is strictly  *)
(* less than max_tokens_per_chunk.                                         *)
C11_NoInvalidChunkingSubmitted ==
    cmd \in UploadCmds =>
      \A c \in remoteCalls :
        c.call = "submit" =>
          /\ c.config.chunking
          /\ c.config.max_tokens_per_chunk > 0
          /\ c.config.max_overlap_tokens > 0
          /\ c.config.max_overlap_tokens < c.config.max_tokens_per_chunk

C11_Witness ==
    /\ cmd = "upload_with_metadata"
    /\ \E c \in remoteCalls : c.call = "submit" /\ c.config.chunking

(* C12: in the upload paths a fileRef whose local file does not exist      *)
(* causes no submit and no operations.get, is reported as skipped and not  *)
(* counted, and never ends the run: the loop goes on with the next one.    *)
C12_MissingFileSkippedBeforeSubmit ==
    cmd \in UploadCmds =>
      \A i \in 1..Len(files) :
        ~files[i] =>
          /\ \A c \in remoteCalls : c.file # i
          /\ \A k \in 1..Len(outcomes) :
               outcomes[k].file = i =>
                 outcomes[k].kind = "Skipped" /\ ~outcomes[k].fetches
          /\ i < idx => \E k \in 1..Len(outcomes) : outcomes[k].file = i
          /\ i = idx => \/ pc \in {"startup", "exited", "no_client", "create", "next"}
                        \/ pc = "crashed" /\ demoResult = "create_failed"
          /\ uploaded <= Cardinality({j \in 1..Len(files) : files[j]})

C12_Witness ==
    /\ cmd \in UploadCmds
    /\ Len(files) >= 2
    /\ ~files[1]
    /\ files[2]
    /\ Len(outcomes) >= 2
    /\ outcomes[1].kind = "Skipped"
    /\ outcomes[2].kind = "Succeeded"
    /\ \E c \in remoteCalls : c.file = 2 /\ c.call = "submit"

(* The stores of the pages fetched so far, in fetch order. *)
RECURSIVE FetchedStores(_)
FetchedStores(fs) ==
    IF fs = <<>> THEN <<>>
    ELSE (IF Head(fs).result.has_stores THEN Head(fs).result.stores ELSE <<>>)
         \o FetchedStores(Tail(fs))

VisitedStores(v) == [i \in 1..Len(v) |-> v[i].store]
LastFetch == pgFetches[Len(pgFetches)]

(* C13: list_stores_paginated follows the page-token chain: the first list *)
(* call passes no token and each later one the token the previous page     *)
(* returned; the loop goes on only after a page with a token and an answer *)
(* "y", and an invocation that ends without an error ends on a page with   *)
(* no token or on a declined prompt; the stores printed are the stores of  *)
(* the fetched pages, each once and numbered from 1; the total is the sum  *)
(* of the page sizes.                                                      *)
C13_PageTokenChainFollowed ==
    cmd = "list_stores_paginated" =>
      /\ \A k \in 1..Len(pgFetches) :
           pgFetches[k].token =
             (IF k = 1 THEN NoToken ELSE pgFetches[k - 1].result.next)
      /\ \A k \in 2..Len(pgFetches) : pgFetches[k].token # NoToken
      /\ pc = "pg_prompt" => LastFetch.result.next # NoToken
      /\ (pc = "pg_fetch" /\ pgFetches # <<>>) =>
           LastFetch.result.next # NoToken /\ PgLower(pgReply) = "y"
      /\ (pc = "finished" /\ pgOut.ending # "error") =>
           \/ LastFetch.result.next = NoToken /\ pgOut.ending \in {"no_token", "no_stores"}
           \/ LastFetch.result.next # NoToken /\ pgOut.ending = "declined"
                /\ PgLower(pgReply) # "y"
      /\ VisitedStores(pgVisited) = FetchedStores(pgFetches)
      /\ \A i \in 1..Len(pgVisited) : pgVisited[i].num = i
      /\ \A i, j \in 1..Len(pgVisited) :
           pgVisited[i].store = pgVisited[j].store => i = j
      /\ total_stores = Len(FetchedStores(pgFetches))
      /\ pgOut.total # NoTotal => pgOut.total = Len(FetchedStores(pgFetches))
      /\ (pc = "finished" /\ pgOut.ending # "no_stores") => pgOut.total # NoTotal

C13_Witness ==
    /\ cmd = "list_stores_paginated"
    /\ pc = "finished"
    /\ pgPass = 1
    /\ pgOut = PgOut("no_token", 3)
    /\ Len(pgFetches) = 2
    /\ pgFetches[2].token = 2
    /\ Len(pgVisited) = 3

(* Every store of the remote service, as the chain of pages returns them. *)
RECURSIVE FullPass(_, _, _)
FullPass(held, size, token) ==
    LET page == RemotePage(held, size, token) IN
      page.stores \o (IF page.next = NoToken THEN <<>>
                      ELSE FullPass(held, size, page.next))

(* The invocation ran to the last page and every list call returned a page. *)
PassComplete(out, fetches) ==
    /\ out.ending \in {"no_token", "no_stores"}
    /\ \A k \in 1..Len(fetches) : fetches[k].result.has_stores

(* C14: a second invocation, nothing having changed remotely, starts with  *)
(* no page token and, run to the last page, prints the stores a full first *)
(* pass prints, however many pages the first invocation consumed.          *)
C14_ListingRestartable ==
    (cmd = "list_stores_paginated" /\ pgPass = 2) =>
      /\ pgFetches # <<>> => pgFetches[1].token = NoToken
      /\ (pc = "finished" /\ PassComplete(pgOut, pgFetches)) =>
           /\ VisitedStores(pgVisited) = FullPass(pgRemote, page_size, NoToken)
           /\ {pgVisited[i].store : i \in 1..Len(pgVisited)}
                = {pgRemote[i] : i \in 1..Len(pgRemote)}
           /\ PassComplete(pgFirst.out, pgFirst.fetches) => pgVisited = pgFirst.visited
           /\ {pgFirst.visited[i].store : i \in 1..Len(pgFirst.visited)}
                \subseteq {pgVisited[i].store : i \in 1..Len(pgVisited)}

C14_Witness ==
    /\ cmd = "list_stores_paginated"
    /\ pgPass = 2
    /\ pc = "finished"
    /\ pgFirst.out.ending = "declined"
    /\ Len(pgFirst.visited) = 1
    /\ PassComplete(pgOut, pgFetches)
    /\ Len(pgVisited) = 3

(* The documents returned by the listings that succeeded, and the sum of   *)
(* their known sizes.                                                      *)
RECURSIVE ListedDocs(_)
ListedDocs(ls) ==
    IF ls = <<>> THEN 0
    ELSE (IF Head(ls).ok THEN Len(Head(ls).docs) ELSE 0) + ListedDocs(Tail(ls))

RECURSIVE ListedKnownMB(_)
ListedKnownMB(ls) ==
    IF ls = <<>> THEN 0
    ELSE (IF Head(ls).ok THEN DocsMB(Head(ls).docs) ELSE 0) + ListedKnownMB(Tail(ls))

(* C15: in the global statistics every listed document is counted, and the *)
(* total input size is the sum of the known sizes: a document whose        *)
(* size_bytes is missing or None adds 0.                                   *)
C15_UnknownSizeCountsZero ==
    (cmd = "show_stats" /\ pc = "finished" /\ summary.printed) =>
      /\ summary.docs = ListedDocs(listings)
      /\ summary.size_mb = ListedKnownMB(listings)

(* Every size a listing returned is 0 bytes. *)
AllZeroBytes(ls) ==
    \A i \in 1..Len(ls) :
      ls[i].ok /\ \A j \in 1..Len(ls[i].docs) : ls[i].docs[j] = SizeOf(0)

(* C16: the estimated storage printed is 3 times the total input size      *)
(* printed with it, in both branches of show_stats and in get_store_info;  *)
(* when every size reported is 0 bytes, both figures are 0.                *)
C16_EstimateIsThreeTimesInput ==
    /\ (cmd \in {"show_stats", "show_stats_store"} /\ summary.printed) =>
         /\ summary.estimated_mb = 3 * summary.size_mb
         /\ AllZeroBytes(listings) =>
              summary.size_mb = 0 /\ summary.estimated_mb = 0
    /\ (cmd = "get_store_info" /\ infoOut.printed) =>
         /\ infoOut.estimated_mb = 3 * infoOut.size_mb
         /\ infoOut.size_mb = (IF infoStore.size_bytes.null THEN 0
                                ELSE infoStore.size_bytes.val \div MB)
         /\ infoStore.size_bytes = Num(0) =>
              infoOut.size_mb = 0 /\ infoOut.estimated_mb = 0

C16_Witness ==
    /\ cmd = "show_stats"
    /\ pc = "finished"
    /\ summary.printed
    /\ summary.size_mb = 30
    /\ summary.estimated_mb = 90

(* C17: when none of the demo's sample files exists locally, the run takes *)
(* the "nothing uploaded" ending: no upload and no query is issued, the    *)
(* delete of the store it created is, and neither the upload count nor the *)
(* closing "All done" line is printed.                                     *)
C17_NothingToDoCleansUp ==
    (cmd = "demo" /\ \A i \in 1..Len(files) : ~files[i]) =>
      /\ remoteCalls = {}
      /\ "generate" \notin demoCalls
      /\ pc \notin {"test", "fetch", "ask", "cleanup"}
      /\ demoLines \subseteq {"No files were uploaded"}
      /\ demoResult # "done"
      /\ pc = "finished" =>
           /\ demoResult = "nothing_uploaded"
           /\ demoStore = "deleted"
           /\ demoCalls = {"create", "delete"}
           /\ demoLines = {"No files were uploaded"}
      /\ (pc = "crashed" /\ demoStore = "exists") => "delete" \in demoCalls

C17_Witness ==
    /\ cmd = "demo"
    /\ \A i \in 1..Len(files) : ~files[i]
    /\ pc = "finished"
    /\ demoResult = "nothing_uploaded"
    /\ demoStore = "deleted"
    /\ "delete" \in demoCalls

(* C18: in every script an invocation that finds GEMINI_API_KEY unset      *)
(* stops before it issues any call to the remote service.                  *)
C18_MissingKeyStopsBeforeAnyCall ==
    ~api_key => ~called

(* C19: the export of all stores holds one entry per store listed, in the  *)
(* listing's order; the entry of a store whose document listing failed has *)
(* a document count of 0 and a key that flags the failure; the entry of    *)
(* every other store has the number of its documents.                      *)
C19_ExportIsolatesFailure ==
    (cmd = "export_stores" /\ pc = "finished" /\ exportOut.printed) =>
      /\ Len(exportOut.data) = nStores
      /\ \A i \in 1..Len(exportOut.data) :
           /\ exportOut.data[i].name = i
           /\ IF listings[i].ok
                THEN exportOut.data[i].document_count = Len(listings[i].docs)
                ELSE /\ exportOut.data[i].document_count = 0
                     /\ exportOut.data[i].keys
                          # {"display_name", "name", "create_time", "document_count"}

(* C20: the upload paths report, for the operation state they waited for,  *)
(* what import_files reports for the same state, and count the file as     *)
(* import_files does: a done operation carrying an error is a failure and  *)
(* is not counted.                                                         *)
C20_UploadTracksLikeImport ==
    cmd \in UploadCmds =>
      /\ \A i \in 1..Len(outcomes) :
           outcomes[i].seen.got => outcomes[i].kind = ImportOutcome(outcomes[i].seen)
      /\ uploaded = Cardinality({i \in 1..Len(outcomes) :
                                   /\ outcomes[i].seen.got
                                   /\ ImportOutcome(outcomes[i].seen) = "Succeeded"})

(* The commands of manage-filestore.py. *)
ManageCmds ==
    BatchCmds \cup {"show_stats", "show_stats_store", "export_stores", "query_store",
                    "get_store_info", "check_operation", "delete_store",
                    "remove_document", "list_stores_paginated"}

(* C21: no command of manage-filestore.py ends on an unhandled exception   *)
(* of a remote call: every such failure, that of the store listing         *)
(* included, is caught inside the command.                                 *)
C21_RemoteFailuresAreCaught ==
    cmd \in ManageCmds => pc # "crashed"

(* C22: an invocation of query_store issues exactly one generation call:   *)
(* when the call fails, the error is reported with no answer and no second *)
(* call; when it succeeds, no further remote call follows.                 *)
C22_ExactlyOneGenerationCall ==
    cmd = "query_store" =>
      /\ qOut.calls <= 1
      /\ called <=> qOut.calls = 1
      /\ pc = "finished" <=> qOut.calls = 1
      /\ (pc = "finished" /\ qResp.kind = "raised") =>
           /\ qOut.outcome = "error"
           /\ ~qOut.answer
           /\ qOut.cites = <<>>

C22_Witness ==
    /\ cmd = "query_store"
    /\ pc = "finished"
    /\ qResp.kind = "raised"
    /\ qOut.calls = 1
    /\ qOut.outcome = "error"

(* C23: every invocation of check_operation issues exactly one             *)
(* operations.get and leaves the remote operation as it was; it can be run *)
(* again for the same operation; it prints "Error" or "Success" only for a *)
(* state that is done, and "In progress" for every state that is not,      *)
(* whatever that state's error and response attributes hold.               *)
C23_CheckIsPureRead ==
    cmd = "check_operation" =>
      /\ chkOut.calls = (IF pc = "finished" THEN 1 ELSE 0)
      /\ \A k \in 1..Len(chkLog) :
           /\ chkLog[k].after = chkLog[k].before
           /\ chkLog[k].got \in {Raised, chkLog[k].before}
           /\ chkLog[k].got # Raised =>
                IF chkLog[k].before.done
                  THEN "In progress" \notin chkLog[k].lines
                  ELSE chkLog[k].lines = {"In progress"}
      /\ \A k \in 1..(Len(chkLog) - 1) :
           chkLog[k].after.done => chkLog[k + 1].before = chkLog[k].after

C23_Witness ==
    /\ cmd = "check_operation"
    /\ pc = "finished"
    /\ Len(chkLog) = 2
    /\ chkLog[1].before = OpUnfinished(TRUE, FALSE)
    /\ chkLog[1].lines = {"In progress"}
    /\ chkLog[2].before = OpOk
    /\ chkLog[2].lines = {"Success"}

BatchCount(b, kind) ==
    Cardinality({i \in 1..Len(batches[b].outcomes) : batches[b].outcomes[i].kind = kind})

(* C24: two ingestion batches running interleaved do not affect each       *)
(* other: the operations are distinct; whatever the order of the submit    *)
(* and fetch steps, every outcome a batch reports for a file is read from  *)
(* the operation that batch submitted for that file and is what the batch  *)
(* reports for that operation's state when it runs alone; its success      *)
(* count is the number of its own succeeded files; a file is reported once *)
(* and in input order.                                                     *)
C24_BatchesIndependent ==
    cmd = "two_batches" =>
      \A b \in Batches :
        /\ \A i \in 1..Len(batches[b].outcomes) :
             LET o == batches[b].outcomes[i] IN
               /\ o.file = i
               /\ o.kind = "Skipped" <=>
                    (ChecksExistence(batches[b].kind) /\ ~batches[b].files[i])
               /\ o.seen.got =>
                    /\ o.id \in 1..Len(remoteOps)
                    /\ remoteOps[o.id].owner = b
                    /\ remoteOps[o.id].file = i
                    /\ remoteOps[o.id].state = o.seen
                    /\ o.kind = OutcomeOf(batches[b].kind, remoteOps[o.id].state)
        /\ batches[b].uploaded = BatchCount(b, "Succeeded")
        /\ batches[b].pc = "finished" => Len(batches[b].outcomes) = Len(batches[b].files)
        /\ batches[b].op.id # 0 => remoteOps[batches[b].op.id].owner = b

C24_Witness ==
    /\ cmd = "two_batches"
    /\ pc = "finished"
    /\ Len(remoteOps) = 2
    /\ remoteOps[1].owner = 1 /\ remoteOps[2].owner = 2
    /\ batches[1].kind = "import_files" /\ batches[2].kind = "import_files"
    /\ batches[1].outcomes[1].kind = "Succeeded"
    /\ batches[1].outcomes[1].fetches
    /\ batches[2].outcomes[1].kind = "FailedOp"
    /\ batches[2].outcomes[1].fetches
    /\ batches[1].uploaded = 1 /\ batches[2].uploaded = 0

(* C25: a run of the demo that created its store does not end before it    *)
(* has issued the delete of that store, on whatever path it ends: no file  *)
(* found, an exception of the submit, fetch or generation call, or the     *)
(* normal ending.                                                          *)
C25_CreatedStoreIsDeleted ==
    (cmd = "demo" /\ pc \in {"finished", "crashed"} /\ demoStore # "none") =>
      "delete" \in demoCalls

(* C26: in list-stores.py the store whose documents are listed for the     *)
(* number n typed at the prompt is the store printed as item n, whatever   *)
(* was created or deleted remotely after the stores were printed; a number *)
(* outside 1..len(stores) leads to no document listing.                    *)
C26_SelectionMatchesDisplay ==
    (cmd = "list_stores_main" /\ pc = "finished" /\ menuChoice # NoMenuLine) =>
      /\ menuOut.path = "chosen" =>
           /\ IntOf(menuChoice) \in 1..Len(menuShown)
           /\ menuOut.listed = menuShown[IntOf(menuChoice)]
      /\ (IsDigit(menuChoice) /\ IntOf(menuChoice) \notin 1..Len(menuStores)) =>
           menuOut.listed = 0

====
